---------------------------- MODULE Spec2Model ----------------------------
(***************************************************************************)
(* Model of cmd/bot/config.go: parseConfig, checkConfig and                *)
(* checkCoinPaymentsConfig.                                                *)
(*                                                                         *)
(* Strings whose content is inspected character by character               *)
(* (dangerous_error_rate, subscription_packet, the source IP addresses)    *)
(* are sequences of one-character strings.  Strings that the code only     *)
(* compares with "" are TLA+ strings.  A nil *coinPaymentsConfig is the    *)
(* empty sequence, a non-nil one is a one-element sequence.                *)
(***************************************************************************)
EXTENDS Integers, Sequences, FiniteSets, TLC

(***************************************************************************)
(* Bounds of the model.                                                    *)
(***************************************************************************)
MaxEndpoints == 2
MaxIPs == 2

(***************************************************************************)
(* Errors.  A Go error value is modelled by its message; messages built    *)
(* with a %s verb keep the formatted argument apart.                       *)
(***************************************************************************)
Nil == [msg |-> "<nil>", arg |-> <<>>]
Err(m) == [msg |-> m, arg |-> <<>>]
Errf(m, x) == [msg |-> m, arg |-> x]

(***************************************************************************)
(* Characters.                                                             *)
(***************************************************************************)
Digits == {"0", "1", "2", "3", "4", "5", "6", "7", "8", "9"}

DigitVal(c) ==
    CASE c = "0" -> 0 [] c = "1" -> 1 [] c = "2" -> 2 [] c = "3" -> 3
      [] c = "4" -> 4 [] c = "5" -> 5 [] c = "6" -> 6 [] c = "7" -> 7
      [] c = "8" -> 8 [] c = "9" -> 9

(***************************************************************************)
(* regexp `^(\d+)/(\d+)$`, FindStringSubmatch: the leftmost match of a     *)
(* greedy \d+, a slash, a greedy \d+ and the end of the text.  The result  *)
(* is <<whole, group 1, group 2>>, or <<>> (nil) when there is no match.   *)
(***************************************************************************)
RECURSIVE DigitRun(_, _)
DigitRun(s, i) ==
    IF i <= Len(s) /\ s[i] \in Digits THEN 1 + DigitRun(s, i + 1) ELSE 0

fractionRegexp(s) ==
    LET n1 == DigitRun(s, 1)
        sl == n1 + 1
        n2 == DigitRun(s, sl + 1)
    IN  IF /\ n1 >= 1
           /\ sl <= Len(s)
           /\ s[sl] = "/"
           /\ n2 >= 1
           /\ sl + n2 = Len(s)
        THEN <<s, SubSeq(s, 1, n1), SubSeq(s, sl + 1, Len(s))>>
        ELSE <<>>

(***************************************************************************)
(* strconv.ParseInt(s, 10, 0) on a non-empty string of decimal digits:     *)
(* the value, or a range error when it exceeds the largest int (64 bits).  *)
(***************************************************************************)
MaxIntDigits ==
    <<"9", "2", "2", "3", "3", "7", "2", "0", "3", "6",
      "8", "5", "4", "7", "7", "5", "8", "0", "7">>

RECURSIVE StripZeros(_)
StripZeros(s) ==
    IF Len(s) > 1 /\ s[1] = "0" THEN StripZeros(Tail(s)) ELSE s

RECURSIVE DigitsLeq(_, _)
DigitsLeq(a, b) ==
    IF a = <<>> THEN TRUE
    ELSE IF DigitVal(a[1]) < DigitVal(b[1]) THEN TRUE
    ELSE IF DigitVal(a[1]) > DigitVal(b[1]) THEN FALSE
    ELSE DigitsLeq(Tail(a), Tail(b))

FitsInt(s) ==
    LET t == StripZeros(s)
    IN  \/ Len(t) < Len(MaxIntDigits)
        \/ Len(t) = Len(MaxIntDigits) /\ DigitsLeq(t, MaxIntDigits)

RECURSIVE DecimalValue(_)
DecimalValue(s) ==
    IF s = <<>> THEN 0
    ELSE 10 * DecimalValue(SubSeq(s, 1, Len(s) - 1)) + DigitVal(s[Len(s)])

ParseInt(s) ==
    IF FitsInt(s)
    THEN [val |-> DecimalValue(s), err |-> Nil]
    ELSE [val |-> 0,
          err |-> Errf("strconv.ParseInt: parsing %q: value out of range", s)]

(***************************************************************************)
(* net.ParseIP on dotted-decimal text: four fields separated by dots, each *)
(* one to three digits without a leading zero and at most 255.  The model  *)
(* covers the IPv4 form; no input of the model contains a colon.           *)
(***************************************************************************)
RECURSIVE SplitDots(_)
SplitDots(s) ==
    IF \A i \in 1..Len(s) : s[i] # "."
    THEN <<s>>
    ELSE LET k == CHOOSE i \in 1..Len(s) :
                      s[i] = "." /\ \A j \in 1..(i - 1) : s[j] # "."
         IN  <<SubSeq(s, 1, k - 1)>> \o SplitDots(SubSeq(s, k + 1, Len(s)))

IPv4FieldOK(f) ==
    /\ Len(f) >= 1
    /\ Len(f) <= 3
    /\ \A i \in 1..Len(f) : f[i] \in Digits
    /\ (Len(f) > 1 => f[1] # "0")
    /\ DecimalValue(f) <= 255

ParseIP(s) ==
    LET fs == SplitDots(s)
    IN  Len(fs) = 4 /\ \A i \in 1..4 : IPv4FieldOK(fs[i])


(***************************************************************************)
(* The decoded documents of the model.  Base is a minimal well-formed      *)
(* document with a coin_payments section; the documents are those that     *)
(* differ from it in at most two fields.  The fields no check reads        *)
(* (debug, interval_ms, enable_cookies, headers, webhook_domain and the    *)
(* certificate paths) are left out.                                        *)
(***************************************************************************)
RateBase == <<"1", "/", "1", "0", "0", "0">>
PacketBase == <<"1", "5", "/", "1", "0">>
TooBig == <<"9", "9", "9", "9", "9", "9", "9", "9", "9", "9",
            "9", "9", "9", "9", "9", "9", "9", "9", "9", "9">>

RateStrings ==
    { RateBase,
      <<"1", "5", "/", "1", "0">>,
      <<"0", "/", "7">>,
      <<"5", "/", "0">>,
      <<"0", "0", "7", "/", "0", "1", "0">>,
      <<>>,
      <<"1", "/">>,
      <<"1", "/", "2", "/", "3">>,
      <<"1", "0", "%">>,
      TooBig \o <<"/", "1">>,
      <<"1", "/">> \o TooBig }

PacketStrings ==
    { PacketBase,
      <<"2", "/", "3">>,
      <<"0", "/", "1", "0">>,
      <<"1", "5", "/", "0">>,
      <<>>,
      <<"1", "5">>,
      <<"1", "5", "/", "1", "0", "$">>,
      TooBig \o <<"/", "1">> }

IPStrings ==
    { <<"1", "0", ".", "0", ".", "0", ".", "1">>,
      <<"1", "0", ".", "0", ".", "0", ".", "2", "5", "6">>,
      <<>> }

IPSeqs == UNION {[1..n -> IPStrings] : n \in 0..MaxIPs}

NameSeq == <<"en", "ru", "de", "fr", "es", "it">>
EndpointNames == {NameSeq[i] : i \in 1..MaxEndpoints}

GoodEndpoint ==
    [ListenPath |-> "/p", ListenAddress |-> ":80", BotToken |-> "t",
     Translation |-> "tr"]

EndpointValues ==
    { GoodEndpoint,
      [GoodEndpoint EXCEPT !.ListenAddress = ""],
      [GoodEndpoint EXCEPT !.ListenPath = ""],
      [GoodEndpoint EXCEPT !.BotToken = ""],
      [GoodEndpoint EXCEPT !.Translation = ""],
      [GoodEndpoint EXCEPT !.ListenAddress = "", !.BotToken = ""],
      [GoodEndpoint EXCEPT !.BotToken = "", !.Translation = ""] }

EndpointMaps == UNION {[S -> EndpointValues] : S \in SUBSET EndpointNames}

CoinBase ==
    [SubscriptionPacket |-> PacketBase,
     Currencies |-> <<"BTC">>,
     PublicKey |-> "pub",
     PrivateKey |-> "priv",
     IPNListenURL |-> "/ipn",
     IPNListenAddress |-> ":8080",
     IPNSecret |-> "s",
     subscriptionPacketPrice |-> 0,
     subscriptionPacketModelNumber |-> 0]

Base ==
    [Website |-> "w",
     PeriodSeconds |-> 1,
     MaxModels |-> 1,
     TimeoutSeconds |-> 1,
     AdminID |-> 1,
     AdminEndpoint |-> "en",
     DBPath |-> "db",
     NotFoundThreshold |-> 1,
     BlockThreshold |-> 1,
     SourceIPAddresses |-> <<>>,
     DangerousErrorRate |-> RateBase,
     StatPassword |-> "pw",
     ErrorReportingPeriodMinutes |-> 1,
     Endpoints |-> [n \in {"en"} |-> GoodEndpoint],
     CoinPayments |-> <<CoinBase>>,
     HeavyUserRemainder |-> 1,
     MailHost |-> "h",
     MailListenAddress |-> ":25",
     errorThreshold |-> 0,
     errorDenominator |-> 0]

IntFields ==
    {"PeriodSeconds", "MaxModels", "TimeoutSeconds", "NotFoundThreshold",
     "BlockThreshold", "ErrorReportingPeriodMinutes", "HeavyUserRemainder"}

StringFields ==
    {"Website", "DBPath", "StatPassword", "MailHost", "MailListenAddress"}

CoinStringFields ==
    {"PublicKey", "PrivateKey", "IPNListenURL", "IPNListenAddress", "IPNSecret"}

CoinFields == CoinStringFields \cup {"SubscriptionPacket", "Currencies"}

TopFields ==
    IntFields \cup StringFields \cup
    {"AdminID", "AdminEndpoint", "SourceIPAddresses", "DangerousErrorRate",
     "Endpoints", "CoinPayments"}

Fields == TopFields \cup CoinFields

FieldValues(f) ==
    CASE f \in IntFields -> {1, 0, -1}
      [] f \in StringFields -> {Base[f], ""}
      [] f = "AdminID" -> {1, 0}
      [] f = "AdminEndpoint" -> {"en", "ru", ""}
      [] f = "SourceIPAddresses" -> IPSeqs
      [] f = "DangerousErrorRate" -> RateStrings
      [] f = "Endpoints" -> EndpointMaps
      [] f = "CoinPayments" -> {<<CoinBase>>, <<>>}
      [] f \in CoinStringFields -> {CoinBase[f], ""}
      [] f = "SubscriptionPacket" -> PacketStrings
      [] f = "Currencies" -> {<<"BTC">>, <<"BTC", "LTC">>, <<>>}

GetField(d, f) ==
    IF f \in CoinFields THEN d.CoinPayments[1][f] ELSE d[f]

SetField(d, f, v) ==
    IF f \in CoinFields
    THEN IF d.CoinPayments = <<>>
         THEN d
         ELSE [d EXCEPT !.CoinPayments = <<[d.CoinPayments[1] EXCEPT ![f] = v]>>]
    ELSE [d EXCEPT ![f] = v]

(***************************************************************************)
(* The `json:"..."` tags of the fields.                                    *)
(***************************************************************************)
JsonKey(f) ==
    CASE f = "Website" -> "website"
      [] f = "PeriodSeconds" -> "period_seconds"
      [] f = "MaxModels" -> "max_models"
      [] f = "TimeoutSeconds" -> "timeout_seconds"
      [] f = "AdminID" -> "admin_id"
      [] f = "AdminEndpoint" -> "admin_endpoint"
      [] f = "DBPath" -> "db_path"
      [] f = "NotFoundThreshold" -> "not_found_threshold"
      [] f = "BlockThreshold" -> "block_threshold"
      [] f = "SourceIPAddresses" -> "source_ip_addresses"
      [] f = "DangerousErrorRate" -> "dangerous_error_rate"
      [] f = "StatPassword" -> "stat_password"
      [] f = "ErrorReportingPeriodMinutes" -> "error_reporting_period_minutes"
      [] f = "Endpoints" -> "endpoints"
      [] f = "CoinPayments" -> "coin_payments"
      [] f = "HeavyUserRemainder" -> "heavy_user_remainder"
      [] f = "MailHost" -> "mail_host"
      [] f = "MailListenAddress" -> "mail_listen_address"
      [] f = "SubscriptionPacket" -> "subscription_packet"
      [] f = "Currencies" -> "currencies"
      [] f = "PublicKey" -> "public_key"
      [] f = "PrivateKey" -> "private_key"
      [] f = "IPNListenURL" -> "ipn_listen_url"
      [] f = "IPNListenAddress" -> "ipn_listen_address"
      [] f = "IPNSecret" -> "ipn_secret"


(***************************************************************************)
(* State.                                                                  *)
(*   doc         the decoded document (decoder.Decode's result)            *)
(*   cfg         the config struct parseConfig works on                    *)
(*   pc          the position of the run of parseConfig                    *)
(*   err         the error checkConfig returns (Nil until it fails)        *)
(*   coinCalled  whether checkCoinPaymentsConfig was invoked in this run   *)
(*   prev        the result of checkConfig in the previous run on the      *)
(*               same document, <<>> in the first run                      *)
(***************************************************************************)
VARIABLES doc, cfg, pc, err, coinCalled, prev

vars == <<doc, cfg, pc, err, coinCalled, prev>>

(***************************************************************************)
(* checkConfig, lines 89-93: the source IP addresses.                      *)
(***************************************************************************)
RECURSIVE SourceIPsErr(_)
SourceIPsErr(ips) ==
    IF ips = <<>> THEN Nil
    ELSE IF ~ParseIP(Head(ips))
    THEN Errf("cannot parse sourece IP address %s", Head(ips))
    ELSE SourceIPsErr(Tail(ips))

(***************************************************************************)
(* checkConfig, lines 95-106: the body of the loop over the endpoints.     *)
(***************************************************************************)
\* Faulty variant of EndpointErr: the bot_token check is missing.
EndpointErr_NoBotToken(x) ==
    IF x.ListenAddress = "" THEN Err("configure listen_address")
    ELSE IF x.ListenPath = "" THEN Err("configure listen_path")
    ELSE IF x.Translation = "" THEN Err("configure translation")
    ELSE Nil

EndpointErr(x) ==
    IF x.ListenAddress = "" THEN Err("configure listen_address")
    ELSE IF x.ListenPath = "" THEN Err("configure listen_path")
    ELSE IF x.BotToken = "" THEN Err("configure bot_token")
    ELSE IF x.Translation = "" THEN Err("configure translation")
    ELSE Nil

(***************************************************************************)
(* checkConfig, lines 94-107: `for _, x := range cfg.Endpoints` visits the *)
(* entries of the map in an order the runtime chooses; order is one such   *)
(* order of the keys.                                                      *)
(***************************************************************************)
MapOrders(m) ==
    {o \in [1..Cardinality(DOMAIN m) -> DOMAIN m] :
        \A i, j \in DOMAIN o : i # j => o[i] # o[j]}

RECURSIVE EndpointsErr(_, _)
EndpointsErr(m, order) ==
    IF order = <<>> THEN Nil
    ELSE IF EndpointErr(m[Head(order)]) # Nil
    THEN EndpointErr(m[Head(order)])
    ELSE EndpointsErr(m, Tail(order))

(***************************************************************************)
(* checkConfig, lines 108-110.                                             *)
(***************************************************************************)
\* Faulty variant of AdminEndpointFound: only an empty map is refused.
AdminEndpointFound_NonEmptyOnly(c) == DOMAIN c.Endpoints # {}

AdminEndpointFound(c) == c.AdminEndpoint \in DOMAIN c.Endpoints

(***************************************************************************)
(* checkConfig, lines 111-149.                                             *)
(***************************************************************************)
ScalarsErr(c) ==
    IF c.PeriodSeconds = 0 THEN Err("configure period_seconds")
    ELSE IF c.MaxModels = 0 THEN Err("configure max_models")
    ELSE IF c.TimeoutSeconds = 0 THEN Err("configure timeout_seconds")
    ELSE IF c.AdminID = 0 THEN Err("configure admin_id")
    ELSE IF c.DBPath = "" THEN Err("configure db_path")
    ELSE IF c.NotFoundThreshold = 0 THEN Err("configure not_found_threshold")
    ELSE IF c.BlockThreshold = 0 THEN Err("configure block_threshold")
    ELSE IF c.Website = "" THEN Err("configure website")
    ELSE IF c.StatPassword = "" THEN Err("configure stat_password")
    ELSE IF c.ErrorReportingPeriodMinutes = 0
    THEN Err("configure error_reporting_period_minutes")
    ELSE IF c.HeavyUserRemainder = 0 THEN Err("configure heavy_user_remainder")
    ELSE IF c.MailHost = "" THEN Err("configure mail_host")
    ELSE IF c.MailListenAddress = "" THEN Err("configure mail_listen_address")
    ELSE Nil

(***************************************************************************)
(* checkConfig, lines 89-149, for one iteration order of the endpoints.    *)
(***************************************************************************)
FieldsErr(c, order) ==
    IF SourceIPsErr(c.SourceIPAddresses) # Nil
    THEN SourceIPsErr(c.SourceIPAddresses)
    ELSE IF EndpointsErr(c.Endpoints, order) # Nil
    THEN EndpointsErr(c.Endpoints, order)
    ELSE IF ~AdminEndpointFound(c) THEN Err("configure admin_endpoint")
    ELSE ScalarsErr(c)

(***************************************************************************)
(* checkConfig, lines 151-170: dangerous_error_rate.  The result is the    *)
(* config (changed only when both integers are stored) and the error.      *)
(***************************************************************************)
\* Faulty variant of StoreRate: the two components are exchanged.
StoreRate_Swapped(c, errorThreshold, errorDenominator) ==
    [c EXCEPT !.errorThreshold = errorDenominator,
              !.errorDenominator = errorThreshold]

\* Faulty variant of StoreRate: the assignments are missing.
StoreRate_Dropped(c, errorThreshold, errorDenominator) == c

StoreRate(c, errorThreshold, errorDenominator) ==
    [c EXCEPT !.errorThreshold = errorThreshold,
              !.errorDenominator = errorDenominator]

RateResult(c) ==
    LET m == fractionRegexp(c.DangerousErrorRate)
    IN  IF Len(m) = 3
        THEN LET t == ParseInt(m[2])
                 d == ParseInt(m[3])
             IN  IF t.err # Nil THEN [cfg |-> c, err |-> t.err]
                 ELSE IF d.err # Nil THEN [cfg |-> c, err |-> d.err]
                 ELSE IF d.val = 0
                 THEN [cfg |-> c,
                       err |-> Err("configure dangerous_errors_rate as \"x/y\", where y > 0")]
                 ELSE [cfg |-> StoreRate(c, t.val, d.val), err |-> Nil]
        ELSE [cfg |-> c, err |-> Err("configure dangerous_error_rate")]

(***************************************************************************)
(* checkCoinPaymentsConfig, lines 182-199.                                 *)
(***************************************************************************)
\* Faulty variant of CoinFieldsErr: the ipn_secret check is missing.
CoinFieldsErr_NoSecret(cp) ==
    IF Len(cp.Currencies) = 0 THEN Err("configure currencies")
    ELSE IF cp.PublicKey = "" THEN Err("configure public_key")
    ELSE IF cp.PrivateKey = "" THEN Err("configure private_key")
    ELSE IF cp.IPNListenURL = "" THEN Err("configure ipn_path")
    ELSE IF cp.IPNListenAddress = "" THEN Err("configure ipn_path")
    ELSE Nil

CoinFieldsErr(cp) ==
    IF Len(cp.Currencies) = 0 THEN Err("configure currencies")
    ELSE IF cp.PublicKey = "" THEN Err("configure public_key")
    ELSE IF cp.PrivateKey = "" THEN Err("configure private_key")
    ELSE IF cp.IPNListenURL = "" THEN Err("configure ipn_path")
    ELSE IF cp.IPNListenAddress = "" THEN Err("configure ipn_path")
    ELSE IF cp.IPNSecret = "" THEN Err("configure ipn_secret")
    ELSE Nil

(***************************************************************************)
(* checkCoinPaymentsConfig, lines 201-220: subscription_packet.            *)
(***************************************************************************)
\* Faulty variant of StorePacket: the first component becomes the price.
StorePacket_Swapped(cp, subscriptionPacketModelNumber, subscriptionPacketPrice) ==
    [cp EXCEPT !.subscriptionPacketPrice = subscriptionPacketModelNumber,
               !.subscriptionPacketModelNumber = subscriptionPacketPrice]

StorePacket(cp, subscriptionPacketModelNumber, subscriptionPacketPrice) ==
    [cp EXCEPT !.subscriptionPacketPrice = subscriptionPacketPrice,
               !.subscriptionPacketModelNumber = subscriptionPacketModelNumber]

PacketResult(cp) ==
    LET m == fractionRegexp(cp.SubscriptionPacket)
    IN  IF Len(m) = 3
        THEN LET n == ParseInt(m[2])
                 p == ParseInt(m[3])
             IN  IF n.err # Nil THEN [cfg |-> cp, err |-> n.err]
                 ELSE IF p.err # Nil THEN [cfg |-> cp, err |-> p.err]
                 ELSE IF n.val = 0 \/ p.val = 0
                 THEN [cfg |-> cp, err |-> Err("invalid subscription packet")]
                 ELSE [cfg |-> StorePacket(cp, n.val, p.val), err |-> Nil]
        ELSE [cfg |-> cp, err |-> Err("configure subscription_packet")]

(***************************************************************************)
(* checkCoinPaymentsConfig, lines 181-223.                                 *)
(***************************************************************************)
checkCoinPaymentsConfig(cp) ==
    IF CoinFieldsErr(cp) # Nil
    THEN [cfg |-> cp, err |-> CoinFieldsErr(cp)]
    ELSE PacketResult(cp)

(***************************************************************************)
(* parseConfig, lines 82-84.                                               *)
(***************************************************************************)
\* Faulty variant of DefaultFill: the sentinel is never appended.
DefaultFill_Never(ips) == ips

DefaultFill(ips) == IF Len(ips) = 0 THEN Append(ips, <<>>) ELSE ips

(***************************************************************************)
(* Init: decoder.Decode has filled cfg from the document (lines 76-80);    *)
(* the run is about to call checkConfig.                                   *)
(***************************************************************************)
Init ==
    /\ \E f1 \in Fields, f2 \in Fields :
         \E v1 \in FieldValues(f1), v2 \in FieldValues(f2) :
            doc = SetField(SetField(Base, f1, v1), f2, v2)
    /\ cfg = doc
    /\ pc = "check"
    /\ err = Nil
    /\ coinCalled = FALSE
    /\ prev = <<>>

(***************************************************************************)
(* checkConfig, lines 89-149: the checks up to mail_listen_address.        *)
(***************************************************************************)
CheckFields ==
    /\ pc = "check"
    /\ \E order \in MapOrders(cfg.Endpoints) :
         /\ err' = FieldsErr(cfg, order)
         /\ pc' = IF FieldsErr(cfg, order) # Nil THEN "checkErr" ELSE "rate"
    /\ UNCHANGED <<doc, cfg, coinCalled, prev>>

(***************************************************************************)
(* checkConfig, lines 151-170.                                             *)
(***************************************************************************)
ParseRate ==
    /\ pc = "rate"
    /\ cfg' = RateResult(cfg).cfg
    /\ err' = RateResult(cfg).err
    /\ pc' = IF RateResult(cfg).err # Nil THEN "checkErr" ELSE "coin"
    /\ UNCHANGED <<doc, coinCalled, prev>>

(***************************************************************************)
(* checkConfig, lines 172-178: the payment section and the return.         *)
(***************************************************************************)
CheckCoin ==
    /\ pc = "coin"
    /\ IF cfg.CoinPayments # <<>>
       THEN LET r == checkCoinPaymentsConfig(cfg.CoinPayments[1])
            IN  /\ cfg' = [cfg EXCEPT !.CoinPayments = <<r.cfg>>]
                /\ err' = r.err
                /\ coinCalled' = TRUE
       ELSE UNCHANGED <<cfg, err, coinCalled>>
    /\ pc' = "checkErr"
    /\ UNCHANGED <<doc, prev>>

(***************************************************************************)
(* parseConfig, line 81: checkErr ends the process on an error.            *)
(***************************************************************************)
CheckErr ==
    /\ pc = "checkErr"
    /\ pc' = IF err # Nil THEN "fatal" ELSE "fill"
    /\ UNCHANGED <<doc, cfg, err, coinCalled, prev>>

(***************************************************************************)
(* parseConfig, lines 82-85: the default source address and the return.    *)
(***************************************************************************)
FillAndReturn ==
    /\ pc = "fill"
    /\ cfg' = [cfg EXCEPT !.SourceIPAddresses = DefaultFill(@)]
    /\ pc' = "returned"
    /\ UNCHANGED <<doc, err, coinCalled, prev>>

(***************************************************************************)
(* readConfig, lines 68-73: the process is started again on the same file. *)
(***************************************************************************)
Restart ==
    /\ pc \in {"fatal", "returned"}
    /\ prev' = <<err>>
    /\ cfg' = doc
    /\ pc' = "check"
    /\ err' = Nil
    /\ coinCalled' = FALSE
    /\ UNCHANGED doc

Next ==
    \/ CheckFields
    \/ ParseRate
    \/ CheckCoin
    \/ CheckErr
    \/ FillAndReturn
    \/ Restart

Spec == Init /\ [][Next]_vars


(***************************************************************************)
(* Vocabulary of the properties, stated on the document, independently of  *)
(* the order in which checkConfig visits anything.                         *)
(***************************************************************************)
Checked == pc = "checkErr"

IPsValid(d) ==
    \A i \in 1..Len(d.SourceIPAddresses) : ParseIP(d.SourceIPAddresses[i])

EndpointsValid(d) ==
    \A n \in DOMAIN d.Endpoints :
        /\ d.Endpoints[n].ListenAddress # ""
        /\ d.Endpoints[n].ListenPath # ""
        /\ d.Endpoints[n].BotToken # ""
        /\ d.Endpoints[n].Translation # ""

ScalarsSet(d) ==
    /\ \A f \in IntFields \cup {"AdminID"} : d[f] # 0
    /\ \A f \in StringFields : d[f] # ""

FieldsOK(d) ==
    /\ IPsValid(d)
    /\ EndpointsValid(d)
    /\ d.AdminEndpoint \in DOMAIN d.Endpoints
    /\ ScalarsSet(d)

\* s has the shape digits/digits
IsFraction(s) ==
    \E k \in 2..(Len(s) - 1) :
        /\ s[k] = "/"
        /\ \A i \in 1..Len(s) : i # k => s[i] \in Digits

SlashPos(s) == CHOOSE k \in 1..Len(s) : s[k] = "/"
Numer(s) == SubSeq(s, 1, SlashPos(s) - 1)
Denom(s) == SubSeq(s, SlashPos(s) + 1, Len(s))
IsZero(ds) == \A i \in 1..Len(ds) : ds[i] = "0"

RateOK(d) ==
    /\ IsFraction(d.DangerousErrorRate)
    /\ ~IsZero(Denom(d.DangerousErrorRate))
    /\ FitsInt(Numer(d.DangerousErrorRate))
    /\ FitsInt(Denom(d.DangerousErrorRate))

CoinStringsSet(cp) ==
    /\ cp.Currencies # <<>>
    /\ \A f \in CoinStringFields : cp[f] # ""

PacketOK(cp) ==
    /\ IsFraction(cp.SubscriptionPacket)
    /\ ~IsZero(Numer(cp.SubscriptionPacket))
    /\ ~IsZero(Denom(cp.SubscriptionPacket))
    /\ FitsInt(Numer(cp.SubscriptionPacket))
    /\ FitsInt(Denom(cp.SubscriptionPacket))

CoinOK(d) ==
    d.CoinPayments # <<>> =>
        CoinStringsSet(d.CoinPayments[1]) /\ PacketOK(d.CoinPayments[1])

RateStored == cfg.errorThreshold # 0 \/ cfg.errorDenominator # 0

PacketStored ==
    /\ cfg.CoinPayments # <<>>
    /\ \/ cfg.CoinPayments[1].subscriptionPacketPrice # 0
       \/ cfg.CoinPayments[1].subscriptionPacketModelNumber # 0

(***************************************************************************)
(* C1.  When checkConfig has returned: it accepted the document only if    *)
(* admin_endpoint is a key of endpoints; and a document whose              *)
(* admin_endpoint is not a key of endpoints, with valid source addresses   *)
(* and well-formed endpoints (or none), is rejected with "configure        *)
(* admin_endpoint", whatever its other fields are.                         *)
(***************************************************************************)
C1_AdminEndpointIsKey ==
    Checked =>
        /\ err = Nil => doc.AdminEndpoint \in DOMAIN doc.Endpoints
        /\ ( /\ doc.AdminEndpoint \notin DOMAIN doc.Endpoints
             /\ IPsValid(doc)
             /\ EndpointsValid(doc) )
           => err = Err("configure admin_endpoint")

C1_Witness ==
    /\ Checked
    /\ doc.AdminEndpoint \notin DOMAIN doc.Endpoints
    /\ DOMAIN doc.Endpoints # {}
    /\ EndpointsValid(doc)
    /\ ScalarsSet(doc) /\ RateOK(doc) /\ CoinOK(doc)
    /\ err = Err("configure admin_endpoint")

(***************************************************************************)
(* C2.  In every configuration checkConfig accepts, the seven integer      *)
(* fields period_seconds, max_models, timeout_seconds,                     *)
(* not_found_threshold, block_threshold, error_reporting_period_minutes    *)
(* and heavy_user_remainder are strictly positive.                         *)
(***************************************************************************)
C2_PositiveIntegers ==
    (Checked /\ err = Nil) => \A f \in IntFields : cfg[f] > 0

(***************************************************************************)
(* C3, as stated.  For a document whose other fields are valid, when       *)
(* checkConfig has returned: if dangerous_error_rate is digits/digits with *)
(* a denominator above zero, it succeeded and stored exactly N and D;      *)
(* otherwise it failed and errorThreshold and errorDenominator are zero.   *)
(***************************************************************************)
C3_Original ==
    (Checked /\ FieldsOK(doc) /\ CoinOK(doc)) =>
        IF /\ IsFraction(doc.DangerousErrorRate)
           /\ ~IsZero(Denom(doc.DangerousErrorRate))
        THEN /\ err = Nil
             /\ cfg.errorThreshold = DecimalValue(Numer(doc.DangerousErrorRate))
             /\ cfg.errorDenominator = DecimalValue(Denom(doc.DangerousErrorRate))
        ELSE /\ err # Nil
             /\ cfg.errorThreshold = 0
             /\ cfg.errorDenominator = 0

(***************************************************************************)
(* C3, amended.  As C3, with the success case limited to N and D that fit  *)
(* the int type: a component beyond the largest int makes checkConfig fail *)
(* with strconv's range error and nothing is stored.                       *)
(***************************************************************************)
C3_RateParsed ==
    (Checked /\ FieldsOK(doc) /\ CoinOK(doc)) =>
        IF /\ IsFraction(doc.DangerousErrorRate)
           /\ ~IsZero(Denom(doc.DangerousErrorRate))
           /\ FitsInt(Numer(doc.DangerousErrorRate))
           /\ FitsInt(Denom(doc.DangerousErrorRate))
        THEN /\ err = Nil
             /\ cfg.errorThreshold = DecimalValue(Numer(doc.DangerousErrorRate))
             /\ cfg.errorDenominator = DecimalValue(Denom(doc.DangerousErrorRate))
        ELSE /\ err # Nil
             /\ cfg.errorThreshold = 0
             /\ cfg.errorDenominator = 0

C3_Witness ==
    /\ Checked
    /\ FieldsOK(doc) /\ CoinOK(doc)
    /\ doc.DangerousErrorRate = <<"1", "5", "/", "1", "0">>
    /\ err = Nil
    /\ cfg.errorThreshold = 15
    /\ cfg.errorDenominator = 10

C5_SourceIPsNeverEmpty ==
    pc = "returned" =>
        /\ Len(cfg.SourceIPAddresses) > 0
        /\ doc.SourceIPAddresses = <<>> => cfg.SourceIPAddresses = << <<>> >>
        /\ \A i \in 1..Len(cfg.SourceIPAddresses) :
              \/ cfg.SourceIPAddresses[i] = <<>>
              \/ ParseIP(cfg.SourceIPAddresses[i])

C5_Witness ==
    /\ pc = "returned"
    /\ doc.SourceIPAddresses = <<>>
    /\ cfg.SourceIPAddresses = << <<>> >>

(***************************************************************************)
(* C6.  A validation failure names the configuration key to fix: for a     *)
(* document that is well formed except that one required key is missing    *)
(* (zero or empty), the message is "configure " followed by the JSON key   *)
(* of that field, so that different keys give different messages.          *)
(***************************************************************************)
RequiredFields ==
    IntFields \cup StringFields \cup CoinFields \cup
    {"AdminID", "AdminEndpoint", "DangerousErrorRate"}

ZeroValue(f) ==
    CASE f \in IntFields \cup {"AdminID"} -> 0
      [] f \in StringFields \cup CoinStringFields \cup {"AdminEndpoint"} -> ""
      [] OTHER -> <<>>

C6_MessageNamesKey ==
    (Checked /\ err # Nil) =>
        \A f \in RequiredFields :
            doc = SetField(Base, f, ZeroValue(f)) =>
                err.msg = "configure " \o JsonKey(f)

(***************************************************************************)
(* C7.  Validation is deterministic: checkConfig returns, in every run on  *)
(* the same document, what it returned in the run before.                  *)
(***************************************************************************)
C7_Deterministic ==
    (Checked /\ prev # <<>>) => err = prev[1]

(***************************************************************************)
(* C8, as stated.  With valid source addresses, if some endpoint has an    *)
(* empty bot_token then checkConfig fails with "configure bot_token".      *)
(***************************************************************************)
SomeEmptyBotToken(d) ==
    \E n \in DOMAIN d.Endpoints : d.Endpoints[n].BotToken = ""

C8_Original ==
    (Checked /\ IPsValid(doc) /\ SomeEmptyBotToken(doc)) =>
        err = Err("configure bot_token")

(***************************************************************************)
(* C8, amended.  With valid source addresses, if some endpoint has an      *)
(* empty bot_token then checkConfig fails with one of the four endpoint    *)
(* messages; the message is "configure bot_token" when, in addition, no    *)
(* endpoint has an empty listen_address or listen_path and no endpoint     *)
(* with a bot_token has an empty translation.  This holds for any number   *)
(* of valid endpoints, any values of the top-level fields and any order    *)
(* in which the map is visited.                                            *)
(***************************************************************************)
EndpointMessages ==
    { Err("configure listen_address"), Err("configure listen_path"),
      Err("configure bot_token"), Err("configure translation") }

BotTokenFirst(d) ==
    \A n \in DOMAIN d.Endpoints :
        /\ d.Endpoints[n].ListenAddress # ""
        /\ d.Endpoints[n].ListenPath # ""
        /\ d.Endpoints[n].Translation = "" => d.Endpoints[n].BotToken = ""

C8_BotTokenReported ==
    (Checked /\ IPsValid(doc) /\ SomeEmptyBotToken(doc)) =>
        /\ err \in EndpointMessages
        /\ BotTokenFirst(doc) => err = Err("configure bot_token")

C8_Witness ==
    /\ Checked
    /\ SomeEmptyBotToken(doc)
    /\ \E n \in DOMAIN doc.Endpoints : doc.Endpoints[n] = GoodEndpoint
    /\ ~ScalarsSet(doc)
    /\ err = Err("configure bot_token")

(***************************************************************************)
(* C9.  checkCoinPaymentsConfig is invoked only when coin_payments is      *)
(* present; a document without coin_payments that passes the other checks  *)
(* is accepted; and in every accepted configuration with coin_payments     *)
(* present the sub-validator was invoked, currencies and the five string   *)
(* fields are non-empty, and subscription_packet parsed to two strictly    *)
(* positive integers.                                                      *)
(***************************************************************************)
C9_PaymentChecks ==
    /\ doc.CoinPayments = <<>> => ~coinCalled
    /\ (Checked /\ doc.CoinPayments = <<>> /\ FieldsOK(doc) /\ RateOK(doc))
          => err = Nil
    /\ (Checked /\ err = Nil /\ cfg.CoinPayments # <<>>) =>
          /\ coinCalled
          /\ CoinStringsSet(cfg.CoinPayments[1])
          /\ IsFraction(cfg.CoinPayments[1].SubscriptionPacket)
          /\ cfg.CoinPayments[1].subscriptionPacketModelNumber > 0
          /\ cfg.CoinPayments[1].subscriptionPacketPrice > 0

C9_Witness ==
    /\ Checked
    /\ err = Nil
    /\ coinCalled
    /\ cfg.CoinPayments[1].IPNSecret # ""
    /\ cfg.CoinPayments[1].subscriptionPacketPrice > 0

(***************************************************************************)
(* C10, as stated.  The derived integers are stored only after the         *)
(* default-filling step, and the configuration is returned only after the  *)
(* checks, the default filling and the parsing succeeded.                  *)
(***************************************************************************)
C10_Original ==
    /\ (RateStored \/ PacketStored) => pc = "returned"
    /\ pc = "returned" =>
          /\ err = Nil
          /\ Len(cfg.SourceIPAddresses) > 0
          /\ RateStored

(***************************************************************************)
(* C10, amended.  In every run of parseConfig: the top-level checks pass   *)
(* first; then dangerous_error_rate is parsed and its integers stored;     *)
(* then, if coin_payments is present, its fields are checked and           *)
(* subscription_packet is parsed and stored; only after checkConfig has    *)
(* succeeded is an empty source_ip_addresses default-filled, as the last   *)
(* step before the configuration is returned.  The derived integers are    *)
(* thus stored before the default filling, never after it.                 *)
(***************************************************************************)
C10_OrderOfSteps ==
    /\ pc \in {"rate", "coin"} => FieldsOK(doc)
    /\ RateStored => FieldsOK(doc)
    /\ PacketStored => RateStored
    /\ pc # "returned" => cfg.SourceIPAddresses = doc.SourceIPAddresses
    /\ pc \in {"fill", "returned"} =>
          /\ err = Nil
          /\ RateStored
          /\ cfg.CoinPayments # <<>> => PacketStored
    /\ pc = "returned" => Len(cfg.SourceIPAddresses) > 0

C10_Witness ==
    /\ pc = "fill"
    /\ cfg.SourceIPAddresses = <<>>
    /\ RateStored
    /\ PacketStored

=============================================================================
